---- MODULE Spec2Model ----
(***************************************************************************)
(* Focus timer of the exam planner (FocusTimerManager), the throttle that  *)
(* wraps its tick, the settings inputs it parses and the settings record   *)
(* it persists through StateManager / StorageManager, and the forest       *)
(* (ForestManager) that the timer drives through deferred calls; the exam  *)
(* and timetable lists of StateManager with their storage entries, the     *)
(* exam form of ExamListManager and the backup file of export and import.  *)
(*                                                                         *)
(* JavaScript values are modelled as follows: `number | null` is an        *)
(* option, None = << >> and Some(v) = << v >>; a text of an <input> is a   *)
(* sequence of one-character strings; the result of parseInt is an option  *)
(* whose None is NaN.  Every event handler runs to completion in one step  *)
(* (the page is single threaded).                                          *)
(***************************************************************************)
EXTENDS Integers, Sequences, FiniteSets, TLC

\* ------------------------------------------------------------------ bounds
\* Date.now() at page load, in ms.
Epoch == 600000
\* The clock is followed for this many minutes after Epoch.
MaxMinutes == 1
\* Minutes followed in the long run without settings edits.
MaxRunMinutes == 5
\* Number of 100 ms clock steps followed after each whole minute.
MaxFine == 1
\* Ticks and starts are followed while count is below this value.
MaxCount == 5
\* Call depth available to nested phase completions.
StackDepth == 12
\* Handlers that defer forest calls run while fewer calls than this wait.
MaxCalls == 2
\* Number of 100 ms clock steps followed in the session of pause and resume.
MaxSteps == 3
\* Number of exams and timetable blocks that the user adds in a session.
MaxIds == 2
\* Number of trees planted in the session of direct calls to the forest.
MaxTrees == 6

\* --------------------------------------------------------------- constants
IntervalMs == 100
ThrottleLimit == 100
MsPerMinute == 60000
VeryLongMinutes == 30
EXAMS_MAX == 1000
TIMETABLE_MAX == 500

None == << >>
Some(v) == << v >>

\* `!x` for a `number | null`
Falsy(x) == x = None \/ x[1] = 0

DEFAULT_SETTINGS == [work |-> 25, short |-> 5, long |-> 15, every |-> 4]

\* ------------------------------------------------------------ conversions
Digits == << "0", "1", "2", "3", "4", "5", "6", "7", "8", "9" >>

IsDigit(c) == \E i \in 1..10 : Digits[i] = c

DigitVal(c) == (CHOOSE i \in 1..10 : Digits[i] = c) - 1

RECURSIVE SkipWhitespace(_)
SkipWhitespace(t) ==
  IF t # << >> /\ Head(t) = " " THEN SkipWhitespace(Tail(t)) ELSE t

RECURSIVE DigitPrefix(_)
DigitPrefix(t) ==
  IF t # << >> /\ IsDigit(Head(t)) THEN << Head(t) >> \o DigitPrefix(Tail(t))
  ELSE << >>

RECURSIVE DigitsValue(_)
DigitsValue(ds) ==
  IF ds = << >> THEN 0
  ELSE 10 * DigitsValue(SubSeq(ds, 1, Len(ds) - 1)) + DigitVal(ds[Len(ds)])

\* parseInt(text): leading blanks, an optional sign, the longest run of
\* decimal digits; NaN (None) when there is no digit.
ParseInt(text) ==
  LET t1 == SkipWhitespace(text)
      signed == t1 # << >> /\ Head(t1) \in {"-", "+"}
      neg == t1 # << >> /\ Head(t1) = "-"
      ds == DigitPrefix(IF signed THEN Tail(t1) ELSE t1)
  IN IF ds = << >> THEN None
     ELSE Some((IF neg THEN -1 ELSE 1) * DigitsValue(ds))

\* `parseInt(v) || d`: NaN and 0 are falsy
OrDefault(r, d) == IF Falsy(r) THEN d ELSE r[1]

RECURSIVE NatText(_)
NatText(n) ==
  IF n < 10 THEN << Digits[n + 1] >>
  ELSE NatText(n \div 10) \o << Digits[(n % 10) + 1] >>

\* String(n) for an integer n
ToText(n) == IF n < 0 THEN << "-" >> \o NatText(-n) ELSE NatText(n)

Abs(a) == IF a < 0 THEN -a ELSE a

\* a % b of JavaScript for b # 0: the sign follows the dividend
JsRem(a, b) == IF a >= 0 THEN a % Abs(b) ELSE -((-a) % Abs(b))

\* formatTime(ms): hours, minutes, seconds of the HH:MM:SS text
FormatTime(ms) ==
  << ms \div 3600000,
     JsRem(ms, 3600000) \div 60000,
     JsRem(ms, 60000) \div 1000 >>

\* ------------------------------------------------------------------- state
VARIABLES
  now,              \* Date.now()
  inputs,           \* value of the inputs #pWork #pShort #pLong #pEvery
  pomodoroState,    \* FocusTimerManager.pomodoroState
  timer,            \* FocusTimerManager.timer, handle of the interval
  targetTime,       \* FocusTimerManager.targetTime
  startTime,        \* FocusTimerManager.startTime
  totalDuration,    \* FocusTimerManager.totalDuration
  display,          \* text of #display
  inThrottle,       \* closure variable of throttle()
  releases,         \* due times of the pending throttle timeouts
  intervals,        \* handles of the intervals that are scheduled
  focus,            \* StateManager.state.focus
  lsFocus,          \* localStorage entry focus_settings_v1
  op,               \* the handler that ran last and what it met
  completed,        \* phase completions performed by the last handler
  pausedAt,         \* Date.now() when pause() stopped the run that is paused
  forestReady,      \* forest.init() found its canvas
  forestCalls,      \* import('./forest').then(...) callbacks not yet run
  growing,          \* growthProgress of ForestManager.currentGrowingTree
  trees,            \* ForestManager.trees.length
  completedSessions, \* ForestManager.completedSessions
  lsForest,         \* localStorage entry forest-progress
  legLast,          \* the progress pushed last since the interval was set
  phasePushed,      \* a progress was pushed since the phase was begun
  cancelled,        \* reset() ran and no progress was pushed since
  pushes,           \* progress values pushed by the last handler
  assigned,         \* assignments to targetTime made by the last handler
  phaseLast,        \* the progress pushed last since the phase was begun
  exams,            \* StateManager.state.exams
  timetable,        \* StateManager.state.timetable
  lsExams,          \* localStorage entry exams_v1, as storage.load reads it
  lsTimetable,      \* localStorage entry timetable_v2, as storage.load reads it
  form,             \* the exam held by the fields of #addForm
  backup,           \* the file written by the last export
  nextId            \* number of ids that generateId() has handed out, plus 1

vars == << now, inputs, pomodoroState, timer, targetTime, startTime,
           totalDuration, display, inThrottle, releases,
           intervals, focus, lsFocus, op, completed, pausedAt,
           forestReady, forestCalls, growing, trees, completedSessions,
           lsForest, legLast, phasePushed, cancelled, pushes, assigned,
           phaseLast, exams, timetable, lsExams, lsTimetable, form, backup,
           nextId >>

\* the forest, which no handler of the timer touches directly
forestVars == << forestReady, growing, trees, completedSessions, lsForest >>

\* the lists of the state manager, their storage, the form and the file
plannerVars == << exams, timetable, lsExams, lsTimetable, form, backup, nextId >>

Fields == {"pWork", "pShort", "pLong", "pEvery"}

Phases == {"work", "short", "long"}

Modes == {"work", "short", "long", "verylong"}

\* What the notification trigger meets: nothing, a failing Audio, or a
\* Notification constructor that throws although permission is granted.
Faults == {"none", "audio", "notification"}

\* Texts the user types, per input (the work input is the one edited).
WorkTexts == { << "-", "1" >>, << "1" >> }
ShortTexts == { }
LongTexts == { }
EveryTexts == { }

\* The settings record that an earlier session left in storage.
StoredAtLoad ==
  [mode |-> "pomodoro", work |-> 1, short |-> 1, long |-> 1, every |-> 2]

\* The stored settings of the long runs.
RunSettings ==
  { [mode |-> "pomodoro", work |-> 1, short |-> 1, long |-> 1, every |-> 4],
    [mode |-> "pomodoro", work |-> 1, short |-> 1, long |-> 5, every |-> 2] }

TextsOf(f) ==
  CASE f = "pWork" -> WorkTexts
    [] f = "pShort" -> ShortTexts
    [] f = "pLong" -> LongTexts
    [] f = "pEvery" -> EveryTexts

\* The fields of the manager, of the throttle closure and of the page
\* timers that a handler reads and writes, as one record.
Cur ==
  [ timer |-> timer, targetTime |-> targetTime, startTime |-> startTime,
    totalDuration |-> totalDuration, ps |-> pomodoroState,
    display |-> display,
    inThrottle |-> inThrottle, releases |-> releases,
    intervals |-> intervals, completed |-> << >>,
    outcome |-> "none", fault |-> "none", thrown |-> FALSE,
    calls |-> forestCalls, legLast |-> legLast,
    phasePushed |-> phasePushed, cancelled |-> cancelled,
    pushes |-> << >>, assigned |-> << >>, phaseLast |-> phaseLast ]

\* Idle, Running or Paused, as the spec names the states
Status(m) ==
  IF m.timer # None THEN "Running"
  ELSE IF m.targetTime # None THEN "Paused" ELSE "Idle"

\* ------------------------------------------------ FocusTimerManager methods
UpdateDisplay(m, ms) == [m EXCEPT !.display = FormatTime(ms)]

GetCurrentPhaseDuration(m, override) ==
  IF ~Falsy(override) THEN override[1]
  ELSE IF m.ps.phase = "work" THEN m.ps.work
  ELSE IF m.ps.phase = "short" THEN m.ps.short
  ELSE m.ps.long

\* An assignment to targetTime is about to be made by `by`: whether an
\* interval is scheduled at that moment.
LogAssign(m, by) ==
  [m EXCEPT !.assigned = Append(@, [by |-> by, scheduled |-> m.intervals # {}])]

\* pause() that also forgets the run, leaving the timer Idle
Pause_Mut(m) ==
  IF m.timer # None
  THEN [m EXCEPT !.intervals = @ \ {m.timer[1]}, !.timer = None,
                 !.targetTime = None, !.startTime = None]
  ELSE m

Pause(m) ==
  IF m.timer # None
  THEN [m EXCEPT !.intervals = @ \ {m.timer[1]}, !.timer = None]
  ELSE m

\* window.setInterval: a handle that is not in use
SetInterval(m) ==
  LET id == CHOOSE i \in 1..(Cardinality(m.intervals) + 1) : i \notin m.intervals
  IN [m EXCEPT !.timer = Some(id), !.intervals = @ \cup {id}]

\* true when playNotification lets an exception escape
PlayNotificationThrows(fault) == fault = "notification"

\* the long break decided on the count before the increment
PhaseTransition_Mut(ps) ==
  IF ps.phase = "work"
  THEN [ps EXCEPT !.count = ps.count + 1,
                  !.phase = IF JsRem(ps.count, ps.every) = 0 THEN "long" ELSE "short"]
  ELSE [ps EXCEPT !.phase = "work"]

\* lines 284-301: the counter and the phase that follows
PhaseTransition(ps) ==
  IF ps.phase = "work"
  THEN LET c == ps.count + 1
       IN [ps EXCEPT !.count = c,
                     !.phase = IF JsRem(c, ps.every) = 0 THEN "long" ELSE "short"]
  ELSE [ps EXCEPT !.phase = "work"]

\* the first branch of startPomodoro() without the assignment of startTime
StartTimes_Mut(m, t) ==
  IF Falsy(m.targetTime)
  THEN LET minutes == IF m.ps.phase = "work" THEN m.ps.work
                      ELSE IF m.ps.phase = "short" THEN m.ps.short
                      ELSE m.ps.long
       IN [m EXCEPT !.totalDuration = minutes * 60 * 1000,
                    !.targetTime = Some(t + minutes * 60 * 1000)]
  ELSE LET remainingTime == m.targetTime[1] - t
       IN IF remainingTime > 0
          THEN [m EXCEPT !.startTime = Some(t),
                         !.totalDuration = remainingTime,
                         !.targetTime = Some(t + remainingTime)]
          ELSE m

\* lines 219-239: the times of a fresh run, or of a resumed one
StartTimes(m, t) ==
  IF Falsy(m.targetTime)
  THEN LET minutes == IF m.ps.phase = "work" THEN m.ps.work
                      ELSE IF m.ps.phase = "short" THEN m.ps.short
                      ELSE m.ps.long
       IN [m EXCEPT !.startTime = Some(t),
                    !.totalDuration = minutes * 60 * 1000,
                    !.targetTime = Some(t + minutes * 60 * 1000)]
  ELSE LET remainingTime == m.targetTime[1] - t
       IN IF remainingTime > 0
          THEN [m EXCEPT !.startTime = Some(t),
                         !.totalDuration = remainingTime,
                         !.targetTime = Some(t + remainingTime)]
          ELSE m

\* A progress value n / d with d > 0; d = 0 stands for NaN.
One == [n |-> 1, d |-> 1]

Zero == [n |-> 0, d |-> 1]

\* the quotient taken of the remaining time, diff / totalDuration
Progress_Mut(elapsed, total) ==
  IF total <= 0 \/ elapsed >= total THEN [n |-> 0, d |-> 1]
  ELSE IF elapsed <= 0 THEN [n |-> 1, d |-> 1]
  ELSE [n |-> total - elapsed, d |-> total]

\* Math.min(1, elapsed / totalDuration)
Progress(elapsed, total) ==
  IF total = 0
  THEN IF elapsed > 0 THEN One ELSE [n |-> IF elapsed = 0 THEN 0 ELSE -1, d |-> 0]
  ELSE LET sn == IF total < 0 THEN -elapsed ELSE elapsed
           sd == Abs(total)
       IN IF sn >= sd THEN One
          ELSE IF sn = 0 THEN Zero
          ELSE [n |-> sn, d |-> sd]

\* import('./forest').then(cb): cb is queued behind the callbacks queued
\* before it.  A forest without canvas is left as it is by every callback
\* (updateCurrentTreeGrowth throws on this.canvas.width before it assigns,
\* completeCurrentTree finds no growing tree, cancelCurrentTree assigns
\* null to null), and those callbacks are not followed.
Defer(m, call, p) ==
  IF forestReady
  THEN [m EXCEPT !.calls = Append(@, [call |-> call, progress |-> p])]
  ELSE m

\* updateTreeGrowth(progress)
UpdateTreeGrowth(m, p) ==
  IF forestReady
  THEN [Defer(m, "update", p) EXCEPT
          !.pushes = Append(@, [progress |-> p, prev |-> m.legLast,
                                first |-> ~m.phasePushed,
                                phase |-> m.ps.phase,
                                phasePrev |-> m.phaseLast]),
          !.legLast = Some(p),
          !.phaseLast = Some(p),
          !.phasePushed = TRUE,
          !.cancelled = FALSE]
  ELSE m

Rank(o) == CASE o = "none" -> 0 [] o = "ran" -> 1 [] o = "completed" -> 2 [] o = "threw" -> 3

Note(m, o) == IF Rank(o) > Rank(m.outcome) THEN [m EXCEPT !.outcome = o] ELSE m

RECURSIVE StartPomodoro(_, _, _, _)
RECURSIVE TickPomodoro(_, _, _, _)
RECURSIVE HandlePomodoroPhaseComplete(_, _, _, _)

\* startPomodoro(): the times, the interval, then a first tick
StartPomodoro(m, t, fault, depth) ==
  LET m0 == IF Falsy(m.targetTime) THEN LogAssign(m, "start")
            ELSE IF m.targetTime[1] - t > 0 THEN LogAssign(m, "resume")
            ELSE m
      m1 == [SetInterval(StartTimes(m0, t)) EXCEPT
               !.legLast = None,
               !.phasePushed = IF Falsy(m.targetTime) THEN FALSE ELSE @,
               !.phaseLast = IF Falsy(m.targetTime) THEN None ELSE @]
  IN TickPomodoro(m1, t, fault, depth)

\* tickPomodoro = throttle(fn, 100): fn runs unless inThrottle; the flag and
\* the timeout are set after fn has returned, and not when fn throws
TickPomodoro(m, t, fault, depth) ==
  IF m.inThrottle THEN m
  ELSE LET r ==
         IF Falsy(m.targetTime) \/ Falsy(m.startTime) THEN m
         ELSE LET diff == IF m.targetTime[1] - t > 0 THEN m.targetTime[1] - t ELSE 0
                  progress == Progress(t - m.startTime[1], m.totalDuration)
                  m0 == Note(UpdateDisplay(m, diff), "ran")
                  m1 == IF m0.ps.phase = "work"
                        THEN UpdateTreeGrowth(m0, progress) ELSE m0
              IN IF diff <= 0
                 THEN HandlePomodoroPhaseComplete(m1, t, fault, depth)
                 ELSE m1
       IN IF r.thrown THEN r
          ELSE [r EXCEPT !.inThrottle = TRUE,
                         !.releases = @ \cup {t + ThrottleLimit}]

HandlePomodoroPhaseComplete(m, t, fault, depth) ==
  IF depth = 0 \/ PlayNotificationThrows(fault)
  THEN [Note(m, "threw") EXCEPT !.thrown = TRUE, !.fault = fault]
  ELSE LET m0 == Pause(m)
           m1 == IF m0.ps.phase = "work" THEN Defer(m0, "complete", Zero) ELSE m0
           ps2 == PhaseTransition(m1.ps)
           m2 == [LogAssign(m1, "complete") EXCEPT
                    !.ps = ps2,
                    !.completed = Append(@, [from |-> m1.ps.phase,
                                             to |-> ps2.phase,
                                             before |-> m1.ps.count,
                                             count |-> ps2.count,
                                             every |-> ps2.every]),
                    !.targetTime = None,
                    !.startTime = None,
                    !.totalDuration = 0]
           m3 == UpdateDisplay(m2, GetCurrentPhaseDuration(m2, None) * 60 * 1000)
       IN StartPomodoro(Note(m3, "completed"), t, fault, depth - 1)

\* start() without its guard
Start_Mut(m, t, fault, depth) == StartPomodoro(m, t, fault, depth)

\* start(): nothing when the interval is already there
Start(m, t, fault, depth) ==
  IF m.timer # None THEN m ELSE StartPomodoro(m, t, fault, depth)

\* reset() that leaves the interval scheduled
Reset_Mut(m) ==
  LET m2 == [LogAssign(m, "reset") EXCEPT
                      !.targetTime = None, !.startTime = None,
                      !.totalDuration = 0,
                      !.ps = [@ EXCEPT !.phase = "work", !.count = 0]]
  IN UpdateDisplay(m2, m2.ps.work * 60 * 1000)

Reset(m) ==
  LET m1 == Pause(m)
      m2 == [LogAssign(m1, "reset") EXCEPT
                       !.targetTime = None, !.startTime = None,
                       !.totalDuration = 0,
                       !.ps = [@ EXCEPT !.phase = "work", !.count = 0]]
      m3 == Defer(UpdateDisplay(m2, m2.ps.work * 60 * 1000), "cancel", Zero)
  IN [m3 EXCEPT !.cancelled = forestReady]

\* switchPhase() that also clears the counter, as reset() does
SwitchPhase_Mut(m, phase) ==
  LET m1 == IF m.timer # None THEN Pause(m) ELSE m
      m2 == [m1 EXCEPT !.ps = [@ EXCEPT !.count = 0, !.phase =
                                 IF phase = "verylong" THEN "long" ELSE phase]]
      minutes == GetCurrentPhaseDuration(
                   m2, IF phase = "verylong" THEN Some(VeryLongMinutes) ELSE None)
      m3 == UpdateDisplay(m2, minutes * 60 * 1000)
  IN [LogAssign(m3, "switchPhase") EXCEPT
        !.targetTime = None, !.startTime = None, !.totalDuration = 0]

\* switchPhase() that leaves the interval of a running timer scheduled
SwitchPhaseKeepsInterval_Mut(m, phase) ==
  LET m2 == [m EXCEPT !.ps = [@ EXCEPT !.phase =
                                IF phase = "verylong" THEN "long" ELSE phase]]
      minutes == GetCurrentPhaseDuration(
                   m2, IF phase = "verylong" THEN Some(VeryLongMinutes) ELSE None)
      m3 == UpdateDisplay(m2, minutes * 60 * 1000)
  IN [LogAssign(m3, "switchPhase") EXCEPT
        !.targetTime = None, !.startTime = None, !.totalDuration = 0]

SwitchPhase(m, phase) ==
  LET m1 == IF m.timer # None THEN Pause(m) ELSE m
      m2 == [m1 EXCEPT !.ps = [@ EXCEPT !.phase =
                                 IF phase = "verylong" THEN "long" ELSE phase]]
      minutes == GetCurrentPhaseDuration(
                   m2, IF phase = "verylong" THEN Some(VeryLongMinutes) ELSE None)
      m3 == UpdateDisplay(m2, minutes * 60 * 1000)
  IN [LogAssign(m3, "switchPhase") EXCEPT
        !.targetTime = None, !.startTime = None, !.totalDuration = 0]

\* resetToDefaults(), up to the settings it hands to the state manager:
\* reset() first, then the default settings
ResetToDefaults(m) ==
  [Reset(m) EXCEPT !.ps = [@ EXCEPT !.work = DEFAULT_SETTINGS.work,
                                    !.short = DEFAULT_SETTINGS.short,
                                    !.long = DEFAULT_SETTINGS.long,
                                    !.every = DEFAULT_SETTINGS.every]]

\* the four assignments of handleSettingsInput / handleSettingsChange
ReadSettings(ps, inp) ==
  [ps EXCEPT !.work = OrDefault(ParseInt(inp["pWork"]), DEFAULT_SETTINGS.work),
             !.short = OrDefault(ParseInt(inp["pShort"]), DEFAULT_SETTINGS.short),
             !.long = OrDefault(ParseInt(inp["pLong"]), DEFAULT_SETTINGS.long),
             !.every = OrDefault(ParseInt(inp["pEvery"]), DEFAULT_SETTINGS.every)]

\* "Update display if not running"
RefreshIdleDisplay(m) ==
  IF m.timer = None
  THEN UpdateDisplay(m, GetCurrentPhaseDuration(m, None) * 60 * 1000)
  ELSE m

\* handleSettingsInput() that re-times the countdown in flight
HandleSettingsInput_Mut(m, inp) ==
  LET m1 == [m EXCEPT !.ps = ReadSettings(@, inp)]
  IN IF m1.timer = None THEN RefreshIdleDisplay(m1)
     ELSE [m1 EXCEPT !.totalDuration = GetCurrentPhaseDuration(m1, None) * 60 * 1000,
                     !.targetTime = Some(m1.startTime[1]
                                         + GetCurrentPhaseDuration(m1, None) * 60 * 1000)]

HandleSettingsInput(m, inp) ==
  RefreshIdleDisplay([m EXCEPT !.ps = ReadSettings(@, inp)])

\* handleSettingsChange(): the four assignments, saveSettings(), then the
\* display; an exception out of saveSettings() ends the handler there
HandleSettingsChange(m, inp, saveThrows) ==
  LET m1 == [m EXCEPT !.ps = ReadSettings(@, inp)]
  IN IF saveThrows THEN [Note(m1, "threw") EXCEPT !.thrown = TRUE]
     ELSE RefreshIdleDisplay(m1)

\* the record saveSettings() hands to state.updateFocusSettings
SavedSettings(ps) ==
  [mode |-> "pomodoro", work |-> ps.work, short |-> ps.short,
   long |-> ps.long, every |-> ps.every]

\* syncSettingsToUI()
SyncSettingsToUI(ps) ==
  [f \in Fields |->
     CASE f = "pWork" -> ToText(ps.work)
       [] f = "pShort" -> ToText(ps.short)
       [] f = "pLong" -> ToText(ps.long)
       [] f = "pEvery" -> ToText(ps.every)]

\* ------------------------------------------------ StorageManager
\* What localStorage does with a write: it stores, the storage was found
\* unavailable at construction, or setItem throws QuotaExceededError.
SaveOutcomes == {"ok", "unavailable", "quota"}

\* storage.save() without its try/catch
StorageSave_Mut(outcome) ==
  [success |-> outcome = "ok", thrown |-> outcome = "quota"]

\* storage.save(): the success flag of its result and whether an exception
\* leaves it
StorageSave(outcome) ==
  [success |-> outcome = "ok", thrown |-> FALSE]

\* updateFocusSettings() without persist()
UpdateFocusSettings_Mut(settings, outcome, stored) ==
  [focus |-> Some(settings), ls |-> stored, thrown |-> FALSE]

\* storage.clear(), for the settings entry: removed unless the storage was
\* found unavailable
StorageClear(outcome, stored) ==
  IF outcome = "unavailable" THEN stored ELSE None

\* state.updateFocusSettings(settings): state.focus, persist(), notify()
UpdateFocusSettings(settings, outcome, stored) ==
  LET s == StorageSave(outcome)
  IN [focus |-> Some(settings),
      ls |-> IF s.success THEN Some(settings) ELSE stored,
      thrown |-> s.thrown]

IsValidFocusSettings(s) ==
  /\ s.mode \in {"countdown", "pomodoro"}
  /\ s.work \in Int /\ s.short \in Int /\ s.long \in Int /\ s.every \in Int

\* storage.load(STORAGE_KEYS.FOCUS, null)
LoadFocus(raw) ==
  IF raw = None THEN None
  ELSE IF IsValidFocusSettings(raw[1]) THEN raw ELSE None

\* pomodoroState after the constructor and init()
InitSettings(saved) ==
  IF saved # None
  THEN [work |-> saved[1].work, short |-> saved[1].short,
        long |-> saved[1].long, every |-> saved[1].every,
        phase |-> "work", count |-> 0]
  ELSE [work |-> DEFAULT_SETTINGS.work, short |-> DEFAULT_SETTINGS.short,
        long |-> DEFAULT_SETTINGS.long, every |-> DEFAULT_SETTINGS.every,
        phase |-> "work", count |-> 0]

\* ------------------------------------------------ StateManager
\* An exam and a timetable block, by the fields the state manager reads.
Exam(i, t) == [id |-> i, title |-> t, completed |-> FALSE]

Block(i) == [id |-> i]

\* the title typed into #title, and the one an update brings
Titles == {"a"}

UpdatedTitle == "b"

\* state.exams, state.timetable and state.focus, as one record
Planner == [exams |-> exams, timetable |-> timetable, focus |-> focus]

\* the three storage entries, as one record
Storage == [exams |-> lsExams, timetable |-> lsTimetable, focus |-> lsFocus]

\* storage.clear(), for the entry of a list
StorageClearList(outcome, stored) ==
  IF outcome = "unavailable" THEN stored ELSE << >>

\* the constructor's three storage.load calls
LoadAll(ls, outcome) ==
  IF outcome = "unavailable"
  THEN [exams |-> << >>, timetable |-> << >>, focus |-> None]
  ELSE [exams |-> ls.exams, timetable |-> ls.timetable,
        focus |-> LoadFocus(ls.focus)]

\* persist() that saves the exams only
Persist_Mut(st, ls, outcome) ==
  IF StorageSave(outcome).success
  THEN [ls EXCEPT !.exams = st.exams]
  ELSE ls

\* persist(): the three storage.save calls
Persist(st, ls, outcome) ==
  IF StorageSave(outcome).success
  THEN [exams |-> st.exams, timetable |-> st.timetable, focus |-> st.focus]
  ELSE ls

\* the result of an operation that changed nothing
Untouched(st, ls) ==
  [st |-> st, ls |-> ls, result |-> FALSE, notified |-> FALSE]

\* the result of an operation that went through persist() and notify()
Changed(st, ls, outcome) ==
  [st |-> st, ls |-> Persist(st, ls, outcome), result |-> TRUE,
   notified |-> TRUE]

AddExam(st, ls, exam, outcome) ==
  IF Len(st.exams) >= EXAMS_MAX THEN Untouched(st, ls)
  ELSE Changed([st EXCEPT !.exams = Append(@, exam)], ls, outcome)

HasId(list, id) == \E i \in 1..Len(list) : list[i].id = id

\* findIndex / find: the first element with the id
IndexOf(list, id) ==
  LET found == { i \in 1..Len(list) : list[i].id = id }
  IN CHOOSE i \in found : \A j \in found : i <= j

\* updateExam(id, {title})
UpdateExam(st, ls, id, title, outcome) ==
  IF ~HasId(st.exams, id) THEN Untouched(st, ls)
  ELSE Changed([st EXCEPT !.exams[IndexOf(st.exams, id)].title = title],
               ls, outcome)

ToggleExamCompletion(st, ls, id, outcome) ==
  IF ~HasId(st.exams, id) THEN Untouched(st, ls)
  ELSE Changed([st EXCEPT !.exams[IndexOf(st.exams, id)].completed = ~@],
               ls, outcome)

\* list.filter((e) => e.id !== id)
Without(list, id) ==
  LET Keep(e) == e.id # id IN SelectSeq(list, Keep)

DeleteExam(st, ls, id, outcome) ==
  LET st1 == [st EXCEPT !.exams = Without(@, id)]
  IN IF Len(st1.exams) < Len(st.exams) THEN Changed(st1, ls, outcome)
     ELSE Untouched(st1, ls)

AddTimetableBlock(st, ls, block, outcome) ==
  IF Len(st.timetable) >= TIMETABLE_MAX THEN Untouched(st, ls)
  ELSE Changed([st EXCEPT !.timetable = Append(@, block)], ls, outcome)

DeleteTimetableBlock(st, ls, id, outcome) ==
  LET st1 == [st EXCEPT !.timetable = Without(@, id)]
  IN IF Len(st1.timetable) < Len(st.timetable) THEN Changed(st1, ls, outcome)
     ELSE Untouched(st1, ls)

\* clearAll(): its own confirm, the empty state, storage.clear(), notify()
ClearAll(st, ls, confirmed, outcome) ==
  IF ~confirmed THEN Untouched(st, ls)
  ELSE [st |-> [exams |-> << >>, timetable |-> << >>, focus |-> None],
        ls |-> [exams |-> StorageClearList(outcome, ls.exams),
                timetable |-> StorageClearList(outcome, ls.timetable),
                focus |-> StorageClear(outcome, ls.focus)],
        result |-> TRUE, notified |-> TRUE]

\* storage.exportData(): the three keys as storage.load yields them; a key
\* whose value is null is None
ExportData(ls, outcome) ==
  LET d == LoadAll(ls, outcome)
  IN [json |-> TRUE, exams |-> Some(d.exams),
      timetable |-> Some(d.timetable), focus |-> d.focus]

\* `if (data[key]) this.save(key, data[key])`: null and a missing key are
\* falsy, an array (also the empty one) and an object are truthy
ImportKey(value, stored, outcome) ==
  IF value # None /\ StorageSave(outcome).success THEN value[1] ELSE stored

\* storage.importData(jsonString)
StorageImportData(ls, file, outcome) ==
  IF ~file.json THEN [ok |-> FALSE, ls |-> ls]
  ELSE [ok |-> TRUE,
        ls |-> [exams |-> ImportKey(file.exams, ls.exams, outcome),
                timetable |-> ImportKey(file.timetable, ls.timetable, outcome),
                focus |-> IF file.focus # None /\ StorageSave(outcome).success
                          THEN file.focus ELSE ls.focus]]

\* importData(file), from reader.onload on
ImportData(st, ls, file, outcome) ==
  LET r == StorageImportData(ls, file, outcome)
  IN IF r.ok
     THEN [st |-> LoadAll(r.ls, outcome), ls |-> r.ls, result |-> TRUE,
           notified |-> TRUE]
     ELSE Untouched(st, ls)

\* Files that did not come from this page: a list of exactly the maximal
\* length, one that is longer by one, and a text that is not JSON.
FileId(i) == 1000 + i

FullFile ==
  [json |-> TRUE,
   exams |-> Some([i \in 1..EXAMS_MAX |-> Exam(FileId(i), "a")]),
   timetable |-> Some([i \in 1..TIMETABLE_MAX |-> Block(FileId(i))]),
   focus |-> None]

LongFile ==
  [json |-> TRUE,
   exams |-> Some([i \in 1..(EXAMS_MAX + 1) |-> Exam(FileId(i), "a")]),
   timetable |-> Some([i \in 1..(TIMETABLE_MAX + 1) |->
                        Block(FileId(i))]),
   focus |-> None]

InvalidFile ==
  [json |-> FALSE, exams |-> None, timetable |-> None, focus |-> None]

\* ... and a file with one exam, one block and no settings
SmallFile ==
  [json |-> TRUE, exams |-> Some(<< Exam(FileId(1), "a") >>),
   timetable |-> Some(<< Block(FileId(1)) >>), focus |-> None]

ForeignFiles == {FullFile, LongFile}

\* ------------------------------------------------ ForestManager
\* The fields of the forest and its stored progress, as one record.
Forest ==
  [growing |-> growing, trees |-> trees, sessions |-> completedSessions,
   ls |-> lsForest]

\* saveProgress()
SaveProgress(f) ==
  [f EXCEPT !.ls = Some([sessions |-> f.sessions, trees |-> f.trees])]

\* updateCurrentTreeGrowth(progress): the tree is created when there is none
UpdateCurrentTreeGrowth(f, p) == [f EXCEPT !.growing = Some(p)]

\* completeCurrentTree() without completedSessions++
CompleteCurrentTree_Mut(f) ==
  IF f.growing # None
  THEN SaveProgress([f EXCEPT !.trees = @ + 1, !.growing = None])
  ELSE f

\* completeCurrentTree()
CompleteCurrentTree(f) ==
  IF f.growing # None
  THEN SaveProgress([f EXCEPT !.trees = @ + 1, !.growing = None,
                              !.sessions = @ + 1])
  ELSE f

\* cancelCurrentTree() that only redraws
CancelCurrentTree_Mut(f) == f

\* cancelCurrentTree()
CancelCurrentTree(f) == [f EXCEPT !.growing = None]

\* onPomodoroComplete(): completedSessions++ comes first; without canvas
\* the read of this.canvas.width throws before the push and the save
OnPomodoroComplete(f, ready) ==
  IF ready
  THEN SaveProgress([f EXCEPT !.sessions = @ + 1, !.trees = @ + 1])
  ELSE [f EXCEPT !.sessions = @ + 1]

\* forest.reset()
ForestReset(f) ==
  SaveProgress([f EXCEPT !.trees = 0, !.sessions = 0, !.growing = None])

\* the callback of a deferred call
RunCall(f, c) ==
  CASE c.call = "update" -> UpdateCurrentTreeGrowth(f, c.progress)
    [] c.call = "complete" -> CompleteCurrentTree(f)
    [] c.call = "cancel" -> CancelCurrentTree(f)

\* forest.init(): the saved progress, when the canvas is there
ForestInit(ready, saved) ==
  IF ready /\ saved # None
  THEN [growing |-> None, trees |-> saved[1].trees,
        sessions |-> saved[1].sessions, ls |-> saved]
  ELSE [growing |-> None, trees |-> 0, sessions |-> 0, ls |-> saved]

\* ----------------------------------------------------------------- actions
Op(name, arg, r) ==
  [name |-> name, arg |-> arg, pre |-> Status(Cur),
   outcome |-> r.outcome, fault |-> r.fault]

\* The handler leaves the manager, the throttle and the page timers as r.
CommitTimer(r, name, arg) ==
  /\ timer' = r.timer
  /\ targetTime' = r.targetTime
  /\ startTime' = r.startTime
  /\ totalDuration' = r.totalDuration
  /\ pomodoroState' = r.ps
  /\ display' = r.display
  /\ inThrottle' = r.inThrottle
  /\ releases' = r.releases
  /\ intervals' = r.intervals
  /\ completed' = r.completed
  /\ forestCalls' = r.calls
  /\ legLast' = r.legLast
  /\ phasePushed' = r.phasePushed
  /\ cancelled' = r.cancelled
  /\ pushes' = r.pushes
  /\ assigned' = r.assigned
  /\ phaseLast' = r.phaseLast
  /\ op' = Op(name, arg, r)

\* ... and the forest as it was.
Commit(r, name, arg) == CommitTimer(r, name, arg) /\ UNCHANGED forestVars

\* The page is loaded: constructor, then init() with what storage holds.
PageLoad(raw) ==
  LET saved == LoadFocus(raw)
      ps == InitSettings(saved)
  IN /\ focus' = saved
     /\ pomodoroState' = ps
     /\ inputs' = SyncSettingsToUI(ps)
     /\ timer' = None /\ targetTime' = None /\ startTime' = None
     /\ totalDuration' = 0
     /\ display' = FormatTime(ps.work * 60 * 1000)
     /\ inThrottle' = FALSE /\ releases' = {} /\ intervals' = {}
     /\ completed' = << >>
     /\ pausedAt' = None
     /\ forestCalls' = << >>
     /\ legLast' = None /\ phasePushed' = FALSE /\ pushes' = << >>
     /\ assigned' = << >> /\ phaseLast' = None
     /\ cancelled' = FALSE
     /\ LET f == ForestInit(forestReady, lsForest)
        IN /\ growing' = f.growing
           /\ trees' = f.trees
           /\ completedSessions' = f.sessions
     /\ exams' = LoadAll(Storage, "ok").exams
     /\ timetable' = LoadAll(Storage, "ok").timetable
     /\ form' = None

\* the timer and the settings after the first page load, with the
\* settings entry `raw` in storage
InitTimerOn(raw) ==
  /\ now = Epoch
  /\ lsFocus = raw
  /\ focus = LoadFocus(lsFocus)
  /\ pomodoroState = InitSettings(focus)
  /\ inputs = SyncSettingsToUI(pomodoroState)
  /\ timer = None /\ targetTime = None /\ startTime = None
  /\ totalDuration = 0
  /\ display = FormatTime(pomodoroState.work * 60 * 1000)
  /\ inThrottle = FALSE /\ releases = {} /\ intervals = {}
  /\ completed = << >>
  /\ pausedAt = None
  /\ op = [name |-> "init", arg |-> "", pre |-> "Idle",
           outcome |-> "none", fault |-> "none"]

\* ... with the settings record `stored`
InitTimer(stored) == InitTimerOn(Some(stored))

\* the forest after the first page load, nothing stored yet
InitForest(ready) ==
  /\ forestReady = ready
  /\ forestCalls = << >>
  /\ lsForest = None
  /\ growing = ForestInit(ready, None).growing
  /\ trees = ForestInit(ready, None).trees
  /\ completedSessions = ForestInit(ready, None).sessions
  /\ legLast = None /\ phasePushed = FALSE /\ pushes = << >>
  /\ assigned = << >> /\ phaseLast = None
  /\ cancelled = FALSE

\* the lists after the first page load, nothing stored yet, the exam form
\* empty and no file exported
InitPlanner ==
  /\ lsExams = << >> /\ lsTimetable = << >>
  /\ exams = << >> /\ timetable = << >>
  /\ form = None
  /\ backup = None
  /\ nextId = 1

\* a page whose forest canvas is missing
InitWith(stored) == InitTimer(stored) /\ InitForest(FALSE) /\ InitPlanner

\* the time of the pause is kept while the timer is Paused
KeepPaused(r) ==
  pausedAt' = IF Status(r) = "Paused" THEN pausedAt ELSE None

Init == InitWith(StoredAtLoad)

\* click on #start
StartClick ==
  /\ pomodoroState.count < MaxCount
  /\ Len(forestCalls) < MaxCalls
  /\ \E fault \in Faults :
       LET r == Start(Cur, now, fault, StackDepth)
       IN Commit(r, "start", "") /\ KeepPaused(r)
  /\ UNCHANGED << now, inputs, focus, lsFocus >>
  /\ UNCHANGED plannerVars

\* click on #pause
PauseClick ==
  /\ Commit(Pause(Cur), "pause", "")
  /\ pausedAt' = IF timer # None THEN Some(now) ELSE pausedAt
  /\ UNCHANGED << now, inputs, focus, lsFocus >>
  /\ UNCHANGED plannerVars

\* click on #reset
ResetClick ==
  /\ Len(forestCalls) < MaxCalls
  /\ Commit(Reset(Cur), "reset", "")
  /\ pausedAt' = None
  /\ UNCHANGED << now, inputs, focus, lsFocus >>
  /\ UNCHANGED plannerVars

\* change of #mode
ModeChange ==
  /\ \E p \in Modes :
       LET r == SwitchPhase(Cur, p)
       IN Commit(r, "switchPhase", p)
  /\ pausedAt' = None
  /\ UNCHANGED << now, inputs, focus, lsFocus >>
  /\ UNCHANGED plannerVars

\* the user types into one settings input: input event
SettingsInput ==
  /\ \E f \in Fields : \E txt \in TextsOf(f) :
       LET inp == [inputs EXCEPT ![f] = txt]
           r == HandleSettingsInput(Cur, inp)
       IN /\ inputs' = inp
          /\ Commit(r, "input", f)
          /\ KeepPaused(r)
  /\ UNCHANGED << now, focus, lsFocus >>
  /\ UNCHANGED plannerVars

\* change event of a settings input; saveSettings -> updateFocusSettings
\* -> persist, which stores the record unless storage.save fails
SettingsChangeWith(outcomes) ==
  /\ \E outcome \in outcomes :
       LET u == UpdateFocusSettings(
                  SavedSettings(ReadSettings(pomodoroState, inputs)),
                  outcome, lsFocus)
           r == HandleSettingsChange(Cur, inputs, u.thrown)
       IN /\ Commit(r, "change", IF outcome = "ok" THEN "saved" ELSE "unsaved")
          /\ KeepPaused(r)
          /\ focus' = u.focus
          /\ lsFocus' = u.ls
          /\ lsExams' = Persist(Planner, Storage, outcome).exams
          /\ lsTimetable' = Persist(Planner, Storage, outcome).timetable
  /\ UNCHANGED << now, inputs, exams, timetable, form, backup, nextId >>

SettingsChange == SettingsChangeWith(SaveOutcomes)

\* the change event on a page whose storage takes every write
SettingsChangeSaved == SettingsChangeWith({"ok"})

\* click on #resetBtn, confirmed: state.clearAll() with its own confirm,
\* focusTimer.resetToDefaults(), forest.reset()
ResetAllWith(outcomes) ==
  /\ Len(forestCalls) < MaxCalls
  /\ \E cleared \in BOOLEAN : \E outcome \in outcomes :
       LET c == ClearAll(Planner, Storage, cleared, outcome)
           r == ResetToDefaults(Cur)
           u == UpdateFocusSettings(SavedSettings(r.ps), outcome, c.ls.focus)
           p == Persist(c.st, c.ls, outcome)
           f == ForestReset(Forest)
       IN /\ CommitTimer(r, "resetAll", IF outcome = "ok" THEN "saved" ELSE "unsaved")
          /\ inputs' = SyncSettingsToUI(r.ps)
          /\ exams' = c.st.exams
          /\ timetable' = c.st.timetable
          /\ focus' = u.focus
          /\ lsFocus' = u.ls
          /\ lsExams' = p.exams
          /\ lsTimetable' = p.timetable
          /\ growing' = f.growing
          /\ trees' = f.trees
          /\ completedSessions' = f.sessions
          /\ lsForest' = f.ls
  /\ pausedAt' = None
  /\ UNCHANGED << now, forestReady, form, backup, nextId >>

ResetAllClick == ResetAllWith(SaveOutcomes)

\* the click on a page whose storage takes every write
ResetAllSaved == ResetAllWith({"ok"})

\* A handler of the planner ran: the timer and the forest are as they were.
PlannerOp(name, arg, r) ==
  /\ exams' = r.st.exams
  /\ timetable' = r.st.timetable
  /\ focus' = r.st.focus
  /\ lsExams' = r.ls.exams
  /\ lsTimetable' = r.ls.timetable
  /\ lsFocus' = r.ls.focus
  /\ op' = [name |-> name, arg |-> arg, pre |-> Status(Cur),
            outcome |-> IF r.notified THEN "notified" ELSE "none",
            fault |-> "none"]
  /\ completed' = << >>
  /\ pushes' = << >>
  /\ assigned' = << >>
  /\ UNCHANGED << now, inputs, pomodoroState, timer, targetTime, startTime,
                  totalDuration, display, inThrottle, releases, intervals,
                  pausedAt, forestVars, forestCalls, legLast, phasePushed,
                  cancelled, phaseLast >>

\* the ids the user clicks on: of the exams and blocks added on this page
\* and of the first one of a foreign file
PickIds == (1..MaxIds) \cup {FileId(1)}

\* submit of #addForm: handleSubmit() with the title the form holds
SubmitExam ==
  /\ nextId <= MaxIds
  /\ \E t \in (IF form # None THEN {form[1]} ELSE Titles) :
       LET r == AddExam(Planner, Storage, Exam(nextId, t), "ok")
       IN /\ PlannerOp("addExam", IF r.result THEN "added" ELSE "refused", r)
          /\ form' = IF r.result THEN None ELSE Some(t)
          /\ nextId' = IF r.result THEN nextId + 1 ELSE nextId
  /\ UNCHANGED backup

\* click on the edit button of an exam: handleEdit(exam)
EditExam ==
  /\ \E id \in PickIds :
       /\ HasId(exams, id)
       /\ form' = Some(exams[IndexOf(exams, id)].title)
       /\ PlannerOp("edit", "", DeleteExam(Planner, Storage, id, "ok"))
  /\ UNCHANGED << backup, nextId >>

\* click on the delete button of an exam, confirmed
DeleteExamClick ==
  /\ \E id \in PickIds :
       /\ HasId(exams, id)
       /\ PlannerOp("deleteExam", "", DeleteExam(Planner, Storage, id, "ok"))
  /\ UNCHANGED << form, backup, nextId >>

\* click on the completion box of an exam in the weekly timetable
ToggleExam ==
  /\ \E id \in PickIds :
       /\ HasId(exams, id)
       /\ PlannerOp("toggleExam", "",
                    ToggleExamCompletion(Planner, Storage, id, "ok"))
  /\ UNCHANGED << form, backup, nextId >>

\* state.updateExam(id, {title})
UpdateExamCall ==
  /\ \E id \in 1..MaxIds :
       PlannerOp("updateExam", "",
                 UpdateExam(Planner, Storage, id, UpdatedTitle, "ok"))
  /\ UNCHANGED << form, backup, nextId >>

\* click on #ttAdd or on a cell: handleAddBlock()
AddBlock ==
  /\ nextId <= MaxIds
  /\ LET r == AddTimetableBlock(Planner, Storage, Block(nextId), "ok")
     IN /\ PlannerOp("addBlock", IF r.result THEN "added" ELSE "refused", r)
        /\ nextId' = IF r.result THEN nextId + 1 ELSE nextId
  /\ UNCHANGED << form, backup >>

\* click on the remove button of a block
DeleteBlock ==
  /\ \E id \in PickIds :
       /\ HasId(timetable, id)
       /\ PlannerOp("deleteBlock", "",
                    DeleteTimetableBlock(Planner, Storage, id, "ok"))
  /\ UNCHANGED << form, backup, nextId >>

\* state.exportData(): the file that is downloaded
ExportClick ==
  /\ backup = None
  /\ backup' = Some(ExportData(Storage, "ok"))
  /\ PlannerOp("export", "", Untouched(Planner, Storage))
  /\ UNCHANGED << form, nextId >>

\* state.importData(file) with one of `files`
ImportOf(files) ==
  /\ \E file \in files :
       PlannerOp("import",
                 IF backup = Some(file) THEN "backup"
                 ELSE IF file.json THEN "foreign" ELSE "invalid",
                 ImportData(Planner, Storage, file, "ok"))
  /\ UNCHANGED << form, backup, nextId >>

\* ... with the exported file
ImportFile == ImportOf(IF backup # None THEN {backup[1]} ELSE {})

\* ... with a small file of another page or with a text that is not JSON
ImportSmall == ImportOf({SmallFile, InvalidFile})

\* ... with a file that did not come from this page
ImportForeign == ImportOf(ForeignFiles)

\* A method of the forest is called directly: the timer, the settings and
\* the planner are as they were.
ForestCall(name, f) ==
  /\ growing' = f.growing
  /\ trees' = f.trees
  /\ completedSessions' = f.sessions
  /\ lsForest' = f.ls
  /\ op' = [name |-> name, arg |-> "", pre |-> Status(Cur),
            outcome |-> "none", fault |-> "none"]
  /\ completed' = << >>
  /\ pushes' = << >>
  /\ assigned' = << >>
  /\ UNCHANGED << now, inputs, pomodoroState, timer, targetTime, startTime,
                  totalDuration, display, inThrottle, releases, intervals,
                  focus, lsFocus, pausedAt, forestReady, forestCalls, legLast,
                  phasePushed, cancelled, phaseLast, plannerVars >>

\* the progress values handed to the forest directly
GrowthSteps == {Zero, [n |-> 1, d |-> 2], One}

\* forest.updateCurrentTreeGrowth(p); without canvas it throws on
\* this.canvas.width before it assigns
CallUpdate ==
  \E p \in GrowthSteps :
    ForestCall("update",
               IF forestReady THEN UpdateCurrentTreeGrowth(Forest, p)
               ELSE Forest)

\* forest.completeCurrentTree()
CallComplete ==
  /\ trees < MaxTrees
  /\ ForestCall("complete", CompleteCurrentTree(Forest))

\* forest.cancelCurrentTree()
CallCancel == ForestCall("cancel", CancelCurrentTree(Forest))

\* forest.onPomodoroComplete()
CallOnPomodoroComplete ==
  /\ trees < MaxTrees /\ completedSessions < MaxTrees
  /\ ForestCall("onPomodoroComplete", OnPomodoroComplete(Forest, forestReady))

\* forest.reset()
CallReset == ForestCall("reset", ForestReset(Forest))

\* a scheduled interval fires
Tick ==
  /\ intervals # {}
  /\ pomodoroState.count < MaxCount
  /\ Len(forestCalls) < MaxCalls
  /\ \E fault \in Faults :
       LET r == TickPomodoro(Cur, now, fault, StackDepth)
       IN Commit(r, "tick", "") /\ KeepPaused(r)
  /\ UNCHANGED << now, inputs, focus, lsFocus >>
  /\ UNCHANGED plannerVars

\* a timeout of the throttle fires
Release ==
  /\ \E due \in releases :
       /\ due <= now
       /\ releases' = releases \ {due}
  /\ inThrottle' = FALSE
  /\ op' = [name |-> "release", arg |-> "", pre |-> Status(Cur),
            outcome |-> "none", fault |-> "none"]
  /\ completed' = << >>
  /\ pushes' = << >>
  /\ assigned' = << >>
  /\ UNCHANGED << now, inputs, pomodoroState, timer, targetTime, startTime,
                  totalDuration, display, intervals, focus,
                  lsFocus, pausedAt, forestVars, forestCalls, legLast,
                  phasePushed, cancelled, phaseLast, plannerVars >>

\* the callback of the oldest deferred forest call runs
Deliver ==
  /\ forestCalls # << >>
  /\ LET f == RunCall(Forest, Head(forestCalls))
     IN /\ growing' = f.growing
        /\ trees' = f.trees
        /\ completedSessions' = f.sessions
        /\ lsForest' = f.ls
  /\ forestCalls' = Tail(forestCalls)
  /\ op' = [name |-> "deliver", arg |-> Head(forestCalls).call,
            pre |-> Status(Cur), outcome |-> "none", fault |-> "none"]
  /\ completed' = << >>
  /\ pushes' = << >>
  /\ assigned' = << >>
  /\ UNCHANGED << now, inputs, pomodoroState, timer, targetTime, startTime,
                  totalDuration, display, inThrottle, releases, intervals,
                  focus, lsFocus, pausedAt, forestReady, legLast,
                  phasePushed, cancelled, phaseLast, plannerVars >>

\* time passes, up to `minutes` after Epoch
AdvanceWithin(minutes) ==
  /\ \E d \in {IntervalMs, MsPerMinute} :
       /\ now + d <= Epoch + minutes * MsPerMinute
       /\ d = IntervalMs => ((now - Epoch) % MsPerMinute) \div IntervalMs < MaxFine
       /\ now' = now + d
  /\ op' = [name |-> "advance", arg |-> "", pre |-> Status(Cur),
            outcome |-> "none", fault |-> "none"]
  /\ completed' = << >>
  /\ pushes' = << >>
  /\ assigned' = << >>
  /\ UNCHANGED << inputs, pomodoroState, timer, targetTime, startTime,
                  totalDuration, display, inThrottle, releases,
                  intervals, focus, lsFocus, pausedAt, forestVars,
                  forestCalls, legLast, phasePushed, cancelled, phaseLast,
                  plannerVars >>

\* 100 ms pass, up to MaxSteps times
AdvanceStep ==
  /\ now + IntervalMs <= Epoch + MaxSteps * IntervalMs
  /\ now' = now + IntervalMs
  /\ op' = [name |-> "advance", arg |-> "", pre |-> Status(Cur),
            outcome |-> "none", fault |-> "none"]
  /\ completed' = << >>
  /\ pushes' = << >>
  /\ assigned' = << >>
  /\ UNCHANGED << inputs, pomodoroState, timer, targetTime, startTime,
                  totalDuration, display, inThrottle, releases,
                  intervals, focus, lsFocus, pausedAt, forestVars,
                  forestCalls, legLast, phasePushed, cancelled, phaseLast,
                  plannerVars >>

\* the page is reloaded
Reload ==
  /\ PageLoad(lsFocus)
  /\ op' = [name |-> "reload", arg |-> "", pre |-> Status(Cur),
            outcome |-> "none", fault |-> "none"]
  /\ UNCHANGED << now, lsFocus, lsForest, forestReady, lsExams, lsTimetable,
                  backup, nextId >>

Advance == AdvanceWithin(MaxMinutes)

AdvanceRun == AdvanceWithin(MaxRunMinutes)

Next ==
  \/ StartClick
  \/ PauseClick
  \/ ResetClick
  \/ ModeChange
  \/ SettingsInput
  \/ SettingsChangeSaved
  \/ Tick
  \/ Release
  \/ Advance
  \/ Reload

Spec == Init /\ [][Next]_vars

\* A session that runs on the stored settings, without settings edits.
InitRun == \E stored \in RunSettings : InitWith(stored)

NextRun ==
  \/ StartClick
  \/ PauseClick
  \/ ResetClick
  \/ ModeChange
  \/ Tick
  \/ Release
  \/ AdvanceRun

SpecRun == InitRun /\ [][NextRun]_vars

\* A session on a page with the forest canvas, without settings edits.
InitGrowing == InitTimer(StoredAtLoad) /\ InitForest(TRUE) /\ InitPlanner

NextGrowing ==
  \/ StartClick
  \/ PauseClick
  \/ ResetClick
  \/ ModeChange
  \/ Tick
  \/ Release
  \/ Deliver
  \/ Advance

SpecGrowing == InitGrowing /\ [][NextGrowing]_vars

\* A session of pause and resume within the first ticks of a work phase,
\* on a page with the forest canvas.
NextResume ==
  \/ StartClick
  \/ PauseClick
  \/ Tick
  \/ Release
  \/ Deliver
  \/ AdvanceStep

SpecResume == InitGrowing /\ [][NextResume]_vars

\* A session on the planner: exams, timetable blocks, settings, import,
\* reset-all and reloads, with a storage that takes every write; the timer
\* stays idle.
NextPlanner ==
  \/ SubmitExam
  \/ EditExam
  \/ DeleteExamClick
  \/ ToggleExam
  \/ UpdateExamCall
  \/ AddBlock
  \/ DeleteBlock
  \/ ImportSmall
  \/ SettingsChangeSaved
  \/ ResetAllSaved
  \/ Reload

\* the first visit of the page, or one with settings stored earlier
InitPlanning ==
  /\ \E raw \in {None, Some(StoredAtLoad)} : InitTimerOn(raw)
  /\ InitForest(FALSE)
  /\ InitPlanner

SpecPlanner == InitPlanning /\ [][NextPlanner]_vars

\* Calls to the methods of an empty forest, in any order, on a page with
\* the forest canvas or without it.
InitForestry ==
  /\ InitTimer(StoredAtLoad)
  /\ \E ready \in BOOLEAN : InitForest(ready)
  /\ InitPlanner

NextForest ==
  \/ CallUpdate
  \/ CallComplete
  \/ CallCancel
  \/ CallOnPomodoroComplete
  \/ CallReset

SpecForest == InitForestry /\ [][NextForest]_vars

\* A session of export and import: the data are exported once, changed,
\* and the exported file is imported.
NextBackup ==
  \/ SubmitExam
  \/ DeleteExamClick
  \/ AddBlock
  \/ SettingsChangeSaved
  \/ ExportClick
  \/ ImportFile
  \/ Reload

SpecBackup == InitPlanning /\ [][NextBackup]_vars

\* A session at the limits of the lists: foreign files are imported, exams
\* and blocks are added and deleted, the page is reloaded.
NextLimits ==
  \/ SubmitExam
  \/ DeleteExamClick
  \/ AddBlock
  \/ DeleteBlock
  \/ ImportForeign
  \/ Reload

SpecLimits == InitPlanning /\ [][NextLimits]_vars

\* A session of settings edits, resets and reloads, with a storage that
\* may refuse a write; the timer is started and paused, the clock stands.
NextSettings ==
  \/ SettingsInput
  \/ SettingsChange
  \/ ResetAllClick
  \/ StartClick
  \/ PauseClick
  \/ Reload

SpecSettings == Init /\ [][NextSettings]_vars

\* The end-to-end session: the stored settings are 1/1/5/2, the user clicks
\* #start once, right after the page is loaded, and then only watches.
E2ESettings ==
  [mode |-> "pomodoro", work |-> 1, short |-> 1, long |-> 5, every |-> 2]

InitE2E == InitWith(E2ESettings)

StartOnce == op.name = "init" /\ StartClick

NextE2E ==
  \/ StartOnce
  \/ Tick
  \/ Release
  \/ AdvanceRun

SpecE2E == InitE2E /\ [][NextE2E]_vars

\* A session in which the interval and the throttle timeout are served:
\* a scheduled interval keeps firing and a due timeout of the throttle fires.
NextLive ==
  \/ StartClick
  \/ PauseClick
  \/ ResetClick
  \/ Tick
  \/ Release
  \/ Advance

\* ENABLED << Tick >>_vars as a state predicate: an interval is scheduled
\* and the tick of some outcome changes the state.
TickActs ==
  /\ intervals # {}
  /\ pomodoroState.count < MaxCount
  /\ Len(forestCalls) < MaxCalls
  /\ \E fault \in Faults :
       LET r == TickPomodoro(Cur, now, fault, StackDepth)
       IN \/ << r.timer, r.targetTime, r.startTime, r.totalDuration, r.ps,
                r.display, r.inThrottle, r.releases, r.intervals, r.completed,
                r.calls, r.legLast, r.phasePushed, r.cancelled, r.pushes,
                r.assigned, Op("tick", "", r) >>
             # << timer, targetTime, startTime, totalDuration, pomodoroState,
                  display, inThrottle, releases, intervals, completed,
                  forestCalls, legLast, phasePushed, cancelled, pushes,
                  assigned, op >>
          \/ (IF Status(r) = "Paused" THEN pausedAt ELSE None) # pausedAt

\* WF_vars(Tick) with its ENABLED written out: setInterval keeps calling
\* the tick every 100 ms for as long as the interval is scheduled.
FairTick == ([]<>~TickActs) \/ ([]<><< Tick >>_vars)

\* setTimeout calls the release of the throttle once it is due.
FairRelease == WF_vars(Release)

SpecLive == Init /\ [][NextLive]_vars /\ FairTick /\ FairRelease

\* ------------------------------------------------------------------ claims
Last(q) == q[Len(q)]

Running == timer # None

\* a handler met remaining <= 0 and entered phase completion
MetCompletion == op.outcome \in {"completed", "threw"}

\* the duration of the current phase under the current settings, in ms
PhaseMs == GetCurrentPhaseDuration(Cur, None) * MsPerMinute

\* C1: a run that is paused and resumed with start() has, right after the
\* resume, the remaining time it had when it was paused, within one tick
\* interval, however long it stayed paused.
C1_ResumeKeepsRemaining ==
  [][ (op'.name = "start" /\ timer = None /\ targetTime # None /\ pausedAt # None)
        => Abs((targetTime'[1] - now') - (targetTime[1] - pausedAt[1])) <= IntervalMs
    ]_vars

\* C2: a completed work phase increments the count and is followed by the
\* long break exactly when the new count is a multiple of `every`, else by
\* the short break; a completed break is followed by work.  With every = 4
\* the completions 1, 2, 3 and 5 lead to the short break, 4 to the long one.
PolicyHolds(e) ==
  IF e.from = "work"
  THEN /\ e.count = e.before + 1
       /\ e.to = IF \E k \in 0..e.count : k * Abs(e.every) = e.count
                 THEN "long" ELSE "short"
       /\ (e.every = 4 /\ e.count \in {1, 2, 3, 5}) => e.to = "short"
       /\ (e.every = 4 /\ e.count = 4) => e.to = "long"
  ELSE e.to = "work"

C2_PhaseTransitionPolicy ==
  /\ \A i \in 1..Len(completed) : PolicyHolds(completed[i])
  /\ completed # << >> =>
       /\ pomodoroState.phase = Last(completed).to
       /\ pomodoroState.count = Last(completed).count

C2_Witness ==
  /\ completed # << >>
  /\ Last(completed).from = "work"
  /\ Last(completed).every = 4
  /\ Last(completed).count = 5
  /\ pomodoroState.phase = "short"

\* C3: the count grows by exactly one for each work phase that a handler
\* completes, and no handler other than reset changes it otherwise: not a
\* break completion, not switchPhase, pause, start or a settings edit.
WorkCompletions(log) == Cardinality({ i \in 1..Len(log) : log[i].from = "work" })

C4_ResetPostcondition ==
  op.name = "reset" =>
    /\ timer = None /\ intervals = {}
    /\ startTime = None /\ targetTime = None /\ totalDuration = 0
    /\ pomodoroState.phase = "work" /\ pomodoroState.count = 0
    /\ display = FormatTime(pomodoroState.work * MsPerMinute)

C4_Witness == op.name = "reset" /\ op.pre = "Running" /\ inThrottle

\* C5: after switchPhase(p) the timer is Idle in phase p with the timestamps
\* cleared, and the duration reported and displayed is the configured
\* duration of phase p, for positive settings.
C5_SwitchPhaseShowsConfigured ==
  ( /\ op.name = "switchPhase"
    /\ pomodoroState.work > 0 /\ pomodoroState.short > 0
    /\ pomodoroState.long > 0 /\ pomodoroState.every > 0 )
  => /\ timer = None /\ intervals = {}
     /\ startTime = None /\ targetTime = None
     /\ display = FormatTime(PhaseMs)

\* C6: a failure of the sound or of the browser notification at a phase
\* completion does not stop the state machine: the phase is left, the count
\* is updated and the next phase is counting down.
C6_NotificationFailureHarmless ==
  MetCompletion =>
    /\ completed # << >>
    /\ Running

\* C7: the four settings are positive integers after every edit and after
\* loading them at startup.
C7_SettingsPositive ==
  /\ pomodoroState.work > 0
  /\ pomodoroState.short > 0
  /\ pomodoroState.long > 0
  /\ pomodoroState.every > 0

\* C8: a tick that finds remaining <= 0 completes the phase and starts the
\* next one in the same step: the timer is Running on the next phase with
\* the target now + the configured duration of that phase.
C8_CompletionStartsNextPhase ==
  (op.name = "tick" /\ MetCompletion) =>
    /\ Running
    /\ completed # << >>
    /\ pomodoroState.phase = Last(completed).to
    /\ startTime = Some(now)
    /\ targetTime = Some(now + PhaseMs)

\* C9: start() while Running changes no field of the timer, and at most one
\* interval is ever scheduled, the one whose handle is in `timer`.
C9_StartIdempotent ==
  /\ [](Cardinality(intervals) <= 1 /\ (timer = None <=> intervals = {}))
  /\ [][ (op'.name = "start" /\ timer # None)
           => UNCHANGED << timer, intervals, targetTime, startTime,
                           totalDuration, pomodoroState, display,
                           inThrottle, releases >>
       ]_vars

C9_Witness == op.name = "start" /\ op.pre = "Running" /\ Cardinality(intervals) = 1

\* C10: a settings edit while Running leaves the countdown in flight as it
\* is (timestamps, total duration, phase, count, interval), and a phase
\* that is started afterwards runs for the duration configured at its start.
StartedFresh ==
  \/ op.name = "start" /\ op.pre = "Idle"
  \/ op.name \in {"start", "tick"} /\ op.outcome = "completed"

C10_EditKeepsCountdown ==
  /\ [][ (op'.name \in {"input", "change"} /\ timer # None)
           => /\ UNCHANGED << startTime, targetTime, totalDuration, timer,
                              intervals, display >>
              /\ pomodoroState'.phase = pomodoroState.phase
              /\ pomodoroState'.count = pomodoroState.count
       ]_vars
  /\ [](StartedFresh =>
          /\ totalDuration = PhaseMs
          /\ targetTime = Some(startTime[1] + PhaseMs))

C10_Witness ==
  /\ op.name = "input" /\ op.pre = "Running"
  /\ pomodoroState.phase = "work"
  /\ startTime = Some(now)
  /\ totalDuration # PhaseMs

\* C11: with the settings 1/1/5/2 and one start() at Epoch, no user action
\* afterwards and ticks that are on time: the tick 60 s after the start
\* completes the work phase and leaves the timer in the short break with
\* count 1, the tick 120 s after the start leaves it in work with count 1,
\* the tick 180 s after the start in the long break with count 2.
E2EStage(k, phase, count) ==
  /\ now' = Epoch + k * MsPerMinute
  /\ startTime = Some(Epoch + (k - 1) * MsPerMinute)
  /\ targetTime = Some(now')
  /\ pomodoroState.phase = phase /\ pomodoroState.count = count

C11_EndToEnd ==
  [][ (op'.name = "tick" /\ op'.outcome # "none")
        => /\ E2EStage(1, "work", 0) =>
                pomodoroState'.phase = "short" /\ pomodoroState'.count = 1
           /\ E2EStage(2, "short", 1) =>
                pomodoroState'.phase = "work" /\ pomodoroState'.count = 1
           /\ E2EStage(3, "work", 1) =>
                pomodoroState'.phase = "long" /\ pomodoroState'.count = 2
    ]_vars

\* the session without a failing notification reaches the long break
C11_Reached ==
  /\ now = Epoch + 3 * MsPerMinute
  /\ op.name = "tick"
  /\ pomodoroState.phase = "long" /\ pomodoroState.count = 2
  /\ targetTime = Some(now + 5 * MsPerMinute)

\* C12: from the start() that begins a phase until the phase completes, is
\* reset or is switched, the total duration keeps the value set at that
\* start, also across pause and resume.
C12_TotalDurationImmutable ==
  [][ ( /\ targetTime # None
        /\ op'.name \notin {"reset", "switchPhase", "reload"}
        /\ completed' = << >> )
        => totalDuration' = totalDuration
    ]_vars

\* C13: when persisting the settings fails, no error reaches the timer:
\* the change handler runs to its end, the edit is in memory (timer and
\* state manager), the display of an idle timer is refreshed, and the
\* countdown, the phase, the count and the interval are left as they are.
C13_SaveFailureHarmless ==
  [][ op'.name = "change"
        => /\ op'.outcome # "threw"
           /\ pomodoroState' = ReadSettings(pomodoroState, inputs)
           /\ focus' = Some(SavedSettings(pomodoroState'))
           /\ UNCHANGED << timer, intervals, targetTime, startTime,
                           totalDuration >>
           /\ timer = None =>
                display' = FormatTime(
                  GetCurrentPhaseDuration([ps |-> pomodoroState'], None) * MsPerMinute)
    ]_vars

C13_Witness ==
  /\ op.name = "change" /\ op.arg = "unsaved"
  /\ op.pre = "Idle"
  /\ lsFocus # focus
  /\ display # FormatTime(StoredAtLoad.work * MsPerMinute)

\* C14: in every reachable state startTime and targetTime are both set or
\* both unset.
C14_TimestampsTogether == (startTime = None) <=> (targetTime = None)

C14_Witness ==
  /\ op.name = "tick" /\ op.outcome = "completed"
  /\ startTime = Some(now) /\ targetTime # None

\* C15 as claimed: the timestamps are set exactly when the timer is Running;
\* with no interval scheduled (Idle or Paused) they are unset.
C15_SetExactlyWhenRunning ==
  /\ timer # None => (startTime # None /\ targetTime # None)
  /\ timer = None => (startTime = None /\ targetTime = None)

\* C15 amended: the timestamps are set in every Running state and stay set
\* while the timer is Paused by pause(); they are unset exactly when no
\* interval is scheduled and no run is paused (Idle).
C15_SetWhenRunningOrPaused ==
  /\ timer # None => (startTime # None /\ targetTime # None)
  /\ (timer = None /\ pausedAt # None) => (startTime # None /\ targetTime # None)
  /\ (timer = None /\ pausedAt = None) => (startTime = None /\ targetTime = None)

C15_Witness ==
  /\ timer = None /\ intervals = {}
  /\ pausedAt # None /\ now > pausedAt[1]
  /\ targetTime # None /\ startTime # None

\* p <= q for progress values
Leq(p, q) == p.n * q.d <= q.n * p.d

InUnit(p) == p.d > 0 /\ 0 <= p.n /\ p.n <= p.d

\* C16: every progress value pushed to the forest lies in [0,1], and the
\* values pushed while one interval is scheduled (from a start or resume to
\* the next pause or completion) do not decrease.
C16_ProgressInUnitMonotone ==
  \A i \in 1..Len(pushes) :
    /\ InUnit(pushes[i].progress)
    /\ pushes[i].prev # None => Leq(pushes[i].prev[1], pushes[i].progress)

C16_Witness ==
  /\ op.name = "tick" /\ pushes # << >>
  /\ Last(pushes).prev = Some(Zero)
  /\ Last(pushes).progress.n > 0
  /\ Last(pushes).progress # One

\* C17: the first progress value pushed after a work phase is begun (by
\* start() from Idle or by the auto-start after a break) is 0, and no
\* progress value is pushed in a break.
C17_FirstProgressZero ==
  \A i \in 1..Len(pushes) :
    /\ pushes[i].phase = "work"
    /\ pushes[i].first => pushes[i].progress = Zero

\* number of deferred completeCurrentTree calls that wait
Pending(q) == Cardinality({ i \in 1..Len(q) : q[i].call = "complete" })

\* C18: every completed work phase defers exactly one completeCurrentTree,
\* whose delivery adds one tree and one session; nothing else changes the
\* two counts: not a break completion, pause or switchPhase.
C18_OneTreePerWorkPhase ==
  [][ /\ trees' + Pending(forestCalls')
          = trees + Pending(forestCalls) + WorkCompletions(completed')
      /\ completedSessions' + Pending(forestCalls')
          = completedSessions + Pending(forestCalls) + WorkCompletions(completed')
      /\ op'.name # "deliver" =>
           trees' = trees /\ completedSessions' = completedSessions
      /\ (op'.name = "deliver" /\ op'.arg = "complete") =>
           trees' = trees + 1 /\ completedSessions' = completedSessions + 1
    ]_vars

C18_Witness ==
  /\ op.name = "deliver" /\ op.arg = "complete" /\ forestCalls = << >>
  /\ trees = 1 /\ completedSessions = 1
  /\ pomodoroState.phase = "short" /\ pomodoroState.count = 1
  /\ growing = None

\* C19: reset() defers cancelCurrentTree behind every call issued before;
\* its delivery leaves no growing tree and the completed trees as they are,
\* and once the calls are delivered no tree is growing until start() pushes
\* progress again.
C19_ResetCancelsGrowth ==
  /\ [](cancelled =>
          IF forestCalls = << >> THEN growing = None
          ELSE Last(forestCalls).call = "cancel")
  /\ [][ /\ op'.name = "reset" =>
              forestCalls' = Append(forestCalls, [call |-> "cancel", progress |-> Zero])
         /\ (op'.name = "deliver" /\ op'.arg = "cancel") =>
              /\ growing' = None
              /\ trees' = trees /\ completedSessions' = completedSessions
       ]_vars

C19_Witness ==
  /\ cancelled /\ forestCalls = << >>
  /\ op.name = "deliver" /\ op.arg = "cancel"
  /\ growing = None /\ trees = 1

\* the persisted record holds the four values of the timer's settings
Persisted == lsFocus = Some(SavedSettings(pomodoroState))

\* C20 as claimed: after every edit of the settings (input event, change
\* event, reset to defaults), with the storage taking the write, the
\* persisted record holds the in-memory settings.
C20_PersistedAfterEveryEdit ==
  ( \/ op.name = "input"
    \/ op.name \in {"change", "resetAll"} /\ op.arg = "saved" )
  => Persisted

\* C20 amended: a change event and reset to defaults persist the in-memory
\* settings (storage taking the write); an input event changes the
\* settings in memory only and leaves the persisted record as it is.
C20_PersistedAfterChange ==
  /\ []( (op.name \in {"change", "resetAll"} /\ op.arg = "saved")
           => Persisted /\ focus = lsFocus )
  /\ [][ op'.name = "input"
           => /\ lsFocus' = lsFocus /\ focus' = focus
              /\ pomodoroState' = ReadSettings(pomodoroState, inputs')
       ]_vars

C20_Witness ==
  /\ op.name = "change" /\ op.arg = "saved"
  /\ Persisted
  /\ pomodoroState.work # StoredAtLoad.work

\* C21: the interval is cancelled before every assignment to targetTime
\* (fresh start, resume, reset, switchPhase, phase completion): no interval
\* is scheduled at the moment of the assignment, an interval is scheduled
\* only while the timer is Running, and every tick runs in a Running timer.
C21_TickCancelledBeforeRetiming ==
  /\ [](\A i \in 1..Len(assigned) : ~assigned[i].scheduled)
  /\ [](timer = None => intervals = {})
  /\ [][op'.name = "tick" => op'.pre = "Running"]_vars

C21_Witness ==
  /\ op.name = "tick" /\ op.outcome = "completed"
  /\ Len(assigned) = 2
  /\ assigned[1].by = "complete" /\ assigned[2].by = "start"
  /\ timer # None

\* the duration that start() would count down if it were called now, in ms
NextRunMs == StartTimes(Cur, now).totalDuration

\* C22: whenever the timer is Idle, the display shows the duration that the
\* next start() counts down; so after switchPhase to each of the modes work,
\* short, long and verylong and after a settings edit made while Idle.
C22_IdleDisplayIsNextDuration ==
  Status(Cur) = "Idle" => display = FormatTime(NextRunMs)

\* the target time of the run has passed and the interval is scheduled
TargetPassed == timer # None /\ targetTime # None /\ now >= targetTime[1]

\* C23: while the timer stays Running, the throttle does not suppress the
\* ticks forever: once the target time of a run has passed, a handler
\* completes the phase, unless the run is paused or reset before.
C23_CompletionEventuallyHandled ==
  TargetPassed ~> (completed # << >> \/ timer = None)

\* C24: within one work phase the progress pushed to the forest does not
\* decrease, also across pause and resume: each value pushed is at least
\* the value pushed before it in the same phase.
C24_ProgressMonotoneAcrossResume ==
  \A i \in 1..Len(pushes) :
    pushes[i].phasePrev # None => Leq(pushes[i].phasePrev[1], pushes[i].progress)

\* exams, timetable, timer settings and forest are cleared or at the defaults
AllCleared ==
  /\ exams = << >> /\ timetable = << >>
  /\ pomodoroState.work = DEFAULT_SETTINGS.work
  /\ pomodoroState.short = DEFAULT_SETTINGS.short
  /\ pomodoroState.long = DEFAULT_SETTINGS.long
  /\ pomodoroState.every = DEFAULT_SETTINGS.every
  /\ trees = 0 /\ completedSessions = 0

\* C25: the reset-all button is all-or-nothing: after the click either
\* exams, timetable, timer settings and forest are all cleared or at their
\* defaults, or none of them is changed; so the timer settings and the
\* forest are never reset while exams and timetable are kept.
C25_ResetAllOrNothing ==
  [][op'.name = "resetAll" =>
       \/ AllCleared'
       \/ UNCHANGED << exams, timetable, pomodoroState, trees,
                       completedSessions >>]_vars

\* an add at the limit is refused: false is returned, and the state, the
\* storage and the listeners are left alone
AddAtLimitRefused ==
  /\ [][op'.name = "addExam" /\ Len(exams) >= EXAMS_MAX =>
          /\ op'.arg = "refused" /\ op'.outcome = "none"
          /\ UNCHANGED << exams, timetable, focus, lsExams, lsTimetable,
                          lsFocus >>]_vars
  /\ [][op'.name = "addBlock" /\ Len(timetable) >= TIMETABLE_MAX =>
          /\ op'.arg = "refused" /\ op'.outcome = "none"
          /\ UNCHANGED << exams, timetable, focus, lsExams, lsTimetable,
                          lsFocus >>]_vars

\* C26: in every reachable state the exams are at most EXAMS_MAX and the
\* timetable blocks at most TIMETABLE_MAX, in memory and in storage; and
\* addExam / addTimetableBlock at the limit return false and leave the
\* state, the storage and the listeners untouched.
C26_ListsWithinLimits ==
  /\ [](/\ Len(exams) <= EXAMS_MAX /\ Len(lsExams) <= EXAMS_MAX
        /\ Len(timetable) <= TIMETABLE_MAX
        /\ Len(lsTimetable) <= TIMETABLE_MAX)
  /\ AddAtLimitRefused

\* every exam of `before` is in `after`, by its id
KeepsExams(before, after) ==
  \A i \in 1..Len(before) : HasId(after, before[i].id)

\* C27: starting to edit an exam does not lose it: after handleEdit(exam)
\* every exam that was in the list, the edited one included, is still in
\* the list in memory and in the stored list.
C27_EditKeepsExam ==
  [][op'.name = "edit" =>
       KeepsExams(exams, exams') /\ KeepsExams(lsExams, lsExams')]_vars

\* C28: importing the file that exportData wrote restores exactly the
\* exported exams, timetable and focus settings, whatever the state was
\* changed to since the export; also when the exported focus settings are
\* null or the exported lists are empty.
C28_ImportRestoresBackup ==
  [][op'.name = "import" /\ op'.arg = "backup" =>
       /\ exams' = backup[1].exams[1]
       /\ timetable' = backup[1].timetable[1]
       /\ focus' = backup[1].focus]_vars

\* C29: with a storage that takes every write, after every operation of
\* the state manager (addExam, updateExam, toggleExamCompletion, deleteExam,
\* addTimetableBlock, deleteTimetableBlock, updateFocusSettings, clearAll,
\* importData) the three storage.load calls of a reload yield the exams,
\* the timetable and the focus settings that are in memory; so it is in
\* every state of the session, and after a clearAll() called in it.
C29_ReloadYieldsState ==
  /\ LoadAll(Storage, "ok") = Planner
  /\ \A confirmed \in BOOLEAN :
       LET c == ClearAll(Planner, Storage, confirmed, "ok")
       IN LoadAll(c.ls, "ok") = c.st

C29_Witness ==
  /\ op.name = "toggleExam" /\ op.outcome = "notified"
  /\ Len(exams) = 1 /\ exams[1].completed /\ exams[1].title = UpdatedTitle
  /\ Len(timetable) = 2
  /\ focus # None
  /\ lsExams = exams /\ lsTimetable = timetable /\ lsFocus = focus

\* C30: from an empty forest on, after any sequence of
\* updateCurrentTreeGrowth, completeCurrentTree, cancelCurrentTree,
\* onPomodoroComplete and reset, completedSessions is the number of trees
\* in the list of completed trees; and completeCurrentTree without a
\* growing tree changes nothing.
C30_SessionsCountTrees ==
  /\ [](completedSessions = trees)
  /\ [][op'.name = "complete" /\ growing = None =>
          UNCHANGED << growing, trees, completedSessions, lsForest >>]_vars

====
